---- MODULE Spec2Model ----
(***************************************************************************)
(* Hookah loyalty-slot backend (FastAPI + SQLAlchemy).                     *)
(*                                                                         *)
(* The database is two tables, users and stocks.  Every HTTP request is a  *)
(* coroutine; each awaited storage statement (a SELECT, or the COMMIT of   *)
(* a session) is one atomic step, and steps of different requests          *)
(* interleave freely.  A row's id is its position in the table.            *)
(*                                                                         *)
(* History variables, kept in the runs of one request at a time: pre[p] is *)
(* the tables when p's request arrived, again[p] says that the request     *)
(* repeats the one p answered 200 just before, and streak[tg] counts the   *)
(* Increments completed for tg since its last Set-filled (n), the size of  *)
(* the stocks table at that time (base) and the n that Set-filled ended    *)
(* (prev).                                                                 *)
(***************************************************************************)
EXTENDS Naturals, Sequences, FiniteSets

VARIABLES users, stocks, admin_ids, max_stocks, pc, req, loc, resp, pre, again, streak

vars == <<users, stocks, admin_ids, max_stocks, pc, req, loc, resp, pre, again, streak>>

(***************************************************************************)
(* Settings and input domains                                              *)
(***************************************************************************)
\* config.Settings: the default of MAX_STOCKS_PER_USER.  The running value is
\* read from the environment at start-up and kept in max_stocks; ADMIN_IDS
\* (default empty) is kept in admin_ids.
MAX_STOCKS_PER_USER == 5
FREE_HOOKAH_TITLE == "free"
PAID_HOOKAH_TITLE == "paid"

\* Python's None, for nullable columns and optional payload fields.  A phone is
\* a sequence of characters, the other strings are opaque.
NONE == "None"
NonePhone == <<"None">>

\* Bounds of the exploration.
\* SmallMax: a MAX_STOCKS_PER_USER setting small enough to explore every
\* interleaving of two requests.  Room: rows that may be added beyond
\* max_stocks (the row of the rollover, and one more).
SmallMax == 2
Room == 1
\* RedeemRoom: the same for the runs of /redeem, which come after a rollover
\* and a Set-filled.
RedeemRoom == 3
\* TinyMax: the smallest MAX_STOCKS_PER_USER setting, for the runs that
\* interleave registrations with ledger requests.
TinyMax == 1

Procs == {"r1", "r2"}
TgIds == {101, 102}
AdminPool == {901}
\* X-Telegram-ID values that no allow-list holds.
Strangers == {902}
Phone1 == <<"+", "1", "2", "3", "4">>
Phone2 == <<"5", "5", "5", "0", "0">>
\* Phones a registration should not carry: three digits; four digits between
\* blanks; seven letters.
ShortPhone == <<"1", "2", "3">>
PaddedPhone == <<" ", "1", "2", "3", "4", " ">>
WordPhone == <<"i", "n", "v", "a", "l", "i", "d">>

\* Python truthiness of an optional string: neither None nor "".
Truthy(s) == s # NONE /\ s # ""
PhoneTruthy(v) == v # NonePhone /\ v # <<>>

(***************************************************************************)
(* Tables and queries                                                      *)
(***************************************************************************)
\* models.User : tg_id is unique and not null; username, first_name, last_name
\* and phone are nullable and carry no unique constraint.
NewUser(tg, fn, ln, ph, un) ==
    [tg_id |-> tg, first_name |-> fn, last_name |-> ln, phone |-> ph, username |-> un]

NoRow == NewUser(0, NONE, NONE, NonePhone, NONE)

\* models.Stock(user_id, completed, title)
NewStock(uid, title) == [user_id |-> uid, title |-> title, completed |-> FALSE]

\* select(User).where(User.tg_id == tg_id) : the row's id, 0 for no row.
UserByTgId(us, tg) ==
    IF \E i \in DOMAIN us : us[i].tg_id = tg
    THEN CHOOSE i \in DOMAIN us : us[i].tg_id = tg
    ELSE 0

\* select(User).where(User.phone == phone) : the ids of the rows found.
\* session.scalar takes the first row of a query that states no order: any
\* of them, or 0 when there is none.
UsersByPhone(us, ph) ==
    IF \E i \in DOMAIN us : us[i].phone = ph
    THEN {i \in DOMAIN us : us[i].phone = ph}
    ELSE {0}

\* The where-clause of get_stocks: rows of the user that are not completed.
PendingIds(st, uid) == {i \in DOMAIN st : st[i].user_id = uid /\ ~st[i].completed}

\* Rows of the user that are completed.
CompletedIds(st, uid) == {i \in DOMAIN st : st[i].user_id = uid /\ st[i].completed}

\* order_by(created_at.desc()) : newest row first.
DescSeq(S) ==
    [k \in 1..Cardinality(S) |->
        CHOOSE x \in S : Cardinality({y \in S : y > x}) = k - 1]

\* rq.get_stocks
get_stocks(st, uid) == DescSeq(PendingIds(st, uid))

\* Mutant of get_completed_stocks_count: counts every row of the user.
get_all_stocks_count(st, uid) == Cardinality({i \in DOMAIN st : st[i].user_id = uid})

\* rq.get_completed_stocks_count
get_completed_stocks_count(st, uid) == Cardinality(CompletedIds(st, uid))

\* Mutant of set_stock: completes only filled_slots of the pending rows, the
\* oldest first.
set_stock_counted(st, uid, filled_slots) ==
    [i \in DOMAIN st |->
        IF /\ st[i].user_id = uid
           /\ ~st[i].completed
           /\ Cardinality({j \in 1..i : st[j].user_id = uid /\ ~st[j].completed}) <= filled_slots
        THEN [st[i] EXCEPT !.completed = TRUE]
        ELSE st[i]]

\* Mutant of set_stock: the UPDATE flips completed on every row of the user.
set_stock_toggle(st, uid, filled_slots) ==
    [i \in DOMAIN st |->
        IF st[i].user_id = uid THEN [st[i] EXCEPT !.completed = ~@] ELSE st[i]]

\* Mutant of set_stock: the UPDATE without its user_id condition.
set_stock_all(st, uid, filled_slots) ==
    [i \in DOMAIN st |-> [st[i] EXCEPT !.completed = TRUE]]

\* rq.set_stock : UPDATE stocks SET completed = TRUE WHERE user_id = uid AND NOT completed.
\* The filled_slots argument is not used by the statement.
set_stock(st, uid, filled_slots) ==
    [i \in DOMAIN st |->
        IF st[i].user_id = uid /\ ~st[i].completed
        THEN [st[i] EXCEPT !.completed = TRUE]
        ELSE st[i]]

\* Mutant of MaxReached: the cap is never reached.
MaxNever(n) == FALSE

\* Mutant of MaxReached: the default of the setting instead of its value.
MaxDefault(n) == n >= MAX_STOCKS_PER_USER

\* Mutant of MaxReached: rolls over one Increment late.
MaxExceeded(n) == n > max_stocks

\* rq.increment_stock : the branch test on the list read by get_stocks.
MaxReached(n) == n >= max_stocks

\* Mutant of SlotTitle: the reward row carries the paid title.
SlotTitlePaid(n) == PAID_HOOKAH_TITLE

\* rq.increment_stock : the title of the row that is added.
SlotTitle(n) == IF MaxReached(n) THEN FREE_HOOKAH_TITLE ELSE PAID_HOOKAH_TITLE

(***************************************************************************)
(* Validation of a registration                                            *)
(***************************************************************************)
Digits == {"0", "1", "2", "3", "4", "5", "6", "7", "8", "9"}

\* str.replace(c, '')
Replace(v, c) == SelectSeq(v, LAMBDA x : x # c)

\* str.isdigit() : at least one character, all of them digits.
IsDigit(v) == Len(v) > 0 /\ \A i \in DOMAIN v : v[i] \in Digits

\* str.strip() : without the leading and trailing blanks.
RECURSIVE Strip(_)
Strip(v) ==
    IF v = <<>> THEN v
    ELSE IF Head(v) = " " THEN Strip(Tail(v))
    ELSE IF v[Len(v)] = " " THEN Strip(SubSeq(v, 1, Len(v) - 1))
    ELSE v

\* schemas.RegisterPayload.validate_phone : TRUE when the validator passes.
validate_phone(v) ==
    ~PhoneTruthy(v) \/ IsDigit(Replace(Replace(Replace(v, "+"), "-"), " "))

\* main.register_user, raw body: pick(...) and the "or" defaults.
PickOrEmpty(v) == IF Truthy(v) THEN v ELSE ""
Pick(v) == IF Truthy(v) THEN v ELSE NONE
PickPhone(v) == IF PhoneTruthy(v) THEN v ELSE <<>>

\* main.register_user, raw body: tg_id and phone are acceptable.
RawValid(r) == r.tg_id # 0 /\ ~(Len(Strip(PickPhone(r.phone))) < 5)

\* The values a registration assigns to the loaded User object.  The payload
\* path (rq.update_user_profile) skips an argument that is None; the raw-body
\* path assigns all four after pick().
Assigned(r, loaded) ==
    IF r.op = "register"
    THEN [loaded EXCEPT
            !.first_name = IF r.first_name # NONE THEN r.first_name ELSE @,
            !.last_name = IF r.last_name # NONE THEN r.last_name ELSE @,
            !.phone = IF r.phone # NonePhone THEN r.phone ELSE @,
            !.username = IF r.username # NONE THEN r.username ELSE @]
    ELSE [loaded EXCEPT
            !.first_name = PickOrEmpty(r.first_name),
            !.last_name = PickOrEmpty(r.last_name),
            !.phone = PickPhone(r.phone),
            !.username = Pick(r.username)]

\* The User(...) a registration inserts when the SELECT found no row.
Inserted(r) ==
    IF r.op = "register"
    THEN NewUser(r.tg_id, r.first_name, r.last_name, r.phone, r.username)
    ELSE Assigned(r, [NoRow EXCEPT !.tg_id = r.tg_id])

\* session.commit() of a loaded and modified User: the UPDATE sets the columns
\* whose assigned value differs from the loaded one, on the row as it is now.
OrmUpdate(row, loaded, new) ==
    [row EXCEPT
        !.first_name = IF new.first_name # loaded.first_name THEN new.first_name ELSE @,
        !.last_name = IF new.last_name # loaded.last_name THEN new.last_name ELSE @,
        !.phone = IF new.phone # loaded.phone THEN new.phone ELSE @,
        !.username = IF new.username # loaded.username THEN new.username ELSE @]

\* Mutants of PhoneConflict: a caller without a row is let through; the
\* caller's own row counts as a conflict.
PhoneConflictKnownOnly(owner, self) == owner # 0 /\ self # 0 /\ owner # self
PhoneConflictAnyOwner(owner, self) == owner # 0

\* main.register_user : "owner and (not user or owner.id != user.id)".
PhoneConflict(owner, self) == owner # 0 /\ (self = 0 \/ owner # self)

(***************************************************************************)
(* Requests                                                                *)
(***************************************************************************)
NoReq ==
    [op |-> "none", tg_id |-> 0, incrementSlot |-> FALSE,
     filledGiven |-> FALSE, filledSlots |-> 0,
     first_name |-> NONE, last_name |-> NONE, phone |-> NonePhone, username |-> NONE,
     admin |-> 0]

NoLoc == [user |-> 0, cur |-> 0, active |-> <<>>, loaded |-> NoRow, mirror |-> "none"]

\* What requests.post to the Apps Script does: replies 200, replies with
\* another status, or raises (timeout, connection error, AttributeError).
MirrorOutcomes == {"ok", "status", "raised"}

NoResp ==
    [status |-> 0, stocks |-> <<>>, total |-> 0, completed |-> 0, available |-> 0,
     registered |-> FALSE, user |-> NoRow]

\* POST /api/stocks/{tg_id} with a StockUpdatePayload.
\* filledSlots is Optional[int]: <<given, value>>.
FilledValues == {<<FALSE, 0>>, <<TRUE, 0>>, <<TRUE, 3>>}

PostStocksReqs ==
    {[NoReq EXCEPT !.op = "post_stocks", !.tg_id = tg, !.incrementSlot = inc,
                   !.filledGiven = f[1], !.filledSlots = f[2]] :
        tg \in TgIds, inc \in BOOLEAN, f \in FilledValues}

GetStocksReqs == {[NoReq EXCEPT !.op = "get_stocks", !.tg_id = tg] : tg \in TgIds}

GetMainReqs == {[NoReq EXCEPT !.op = "get_main", !.tg_id = tg] : tg \in TgIds}

\* /redeem/{guest_tg_id}; admin is the X-Telegram-ID header, 0 when absent.
RedeemReqs ==
    {[NoReq EXCEPT !.op = "redeem", !.tg_id = tg, !.admin = a] :
        tg \in TgIds, a \in AdminPool \cup {0}}

LedgerReqs == PostStocksReqs \cup GetStocksReqs \cup GetMainReqs \cup RedeemReqs

\* POST /api/register.  op "register": the body parsed as RegisterPayload;
\* op "register_raw": payload is None and the body is a dict.
Names == {<<NONE, NONE, NONE>>, <<"Test", "User", "testuser">>}

RegisterReqs(paths, names, phones) ==
    {[NoReq EXCEPT !.op = o, !.tg_id = tg, !.first_name = n[1], !.last_name = n[2],
                   !.username = n[3], !.phone = ph] :
        o \in paths, tg \in TgIds, n \in names, ph \in phones}

\* A request that will add a stocks row if it runs to its end.
Adds(r) == (r.op = "post_stocks" /\ r.incrementSlot) \/ r.op = "redeem"

Idle(p) == pc[p] \in {"idle", "done"}

InFlightAdds == Cardinality({q \in Procs : ~Idle(q) /\ Adds(req[q])})

EntryPc(r) ==
    CASE r.op \in {"post_stocks", "get_stocks"} -> "add_user_select"
      [] r.op = "get_main" -> "get_user"
      [] r.op = "redeem" -> "redeem_check"
      [] r.op \in {"register", "register_raw"} -> "reg_validate"
      [] OTHER -> "done"

\* The state after start-up (init_db on an empty database) under the given
\* settings.
InitWith(max, admins) ==
    /\ users = <<>>
    /\ stocks = <<>>
    /\ admin_ids \in admins
    /\ max_stocks = max
    /\ pc = [p \in Procs |-> "idle"]
    /\ req = [p \in Procs |-> NoReq]
    /\ loc = [p \in Procs |-> NoLoc]
    /\ resp = [p \in Procs |-> NoResp]
    /\ pre = [p \in Procs |-> [users |-> <<>>, stocks |-> <<>>]]
    /\ again = [p \in Procs |-> FALSE]
    /\ streak = [tg \in TgIds |-> [n |-> 0, base |-> 0, prev |-> 0]]

\* Request r arrives at worker p.  With track, pre[p] keeps the tables as they
\* were then.
Arrive(p, r, track) ==
    /\ req' = [req EXCEPT ![p] = r]
    /\ pc' = [pc EXCEPT ![p] = EntryPc(r)]
    /\ again' = [again EXCEPT ![p] =
                    track /\ pc[p] = "done" /\ resp[p].status = 200 /\ r = req[p]]
    /\ loc' = [loc EXCEPT ![p] = NoLoc]
    /\ resp' = [resp EXCEPT ![p] = NoResp]
    /\ pre' = IF track THEN [pre EXCEPT ![p] = [users |-> users, stocks |-> stocks]] ELSE pre
    /\ UNCHANGED <<users, stocks, admin_ids, max_stocks, streak>>

\* A request of R arrives at an idle worker; the stocks table is kept within
\* max_stocks + Room rows.
StartReq(p, R, track) ==
    /\ Idle(p)
    /\ \E r \in R :
        /\ Adds(r) => Len(stocks) + InFlightAdds < max_stocks + Room
        /\ Arrive(p, r, track)

\* The request ends with response r; its locals are gone (the outcome of the
\* mirror call stays on record).
Done(p, r) ==
    /\ pc' = [pc EXCEPT ![p] = "done"]
    /\ resp' = [resp EXCEPT ![p] = r]
    /\ loc' = [loc EXCEPT ![p] = [NoLoc EXCEPT !.mirror = loc[p].mirror]]

\* The request ends with an error status and no body.
Fail(p, code) == Done(p, [NoResp EXCEPT !.status = code])

\* The request goes on at label l with its locals set to l2.
Goto(p, l, l2) ==
    /\ pc' = [pc EXCEPT ![p] = l]
    /\ loc' = [loc EXCEPT ![p] = l2]
    /\ UNCHANGED resp

\* Mutant of AfterAddUser: /redeem adds its row without reading the pending
\* rows first.
AfterAddUserRedeemAdds(r) ==
    CASE r.op = "get_stocks" -> "summary_active"
      [] r.op = "redeem" -> "add_slot"
      [] r.op = "post_stocks" /\ r.incrementSlot -> "get_stocks"
      [] r.op = "post_stocks" /\ ~r.incrementSlot /\ r.filledGiven -> "set_stock"
      [] OTHER -> "neither"

\* Mutant of AfterAddUser: a given filledSlots goes before incrementSlot.
AfterAddUserFillFirst(r) ==
    CASE r.op = "get_stocks" -> "summary_active"
      [] r.op = "redeem" -> "get_stocks"
      [] r.op = "post_stocks" /\ r.filledGiven -> "set_stock"
      [] r.op = "post_stocks" /\ r.incrementSlot -> "get_stocks"
      [] OTHER -> "neither"

\* main.update_stock / get_stock / _redeem_core : what follows add_user.
\* A POST with neither action raises HTTPException(400) inside the try block,
\* where "except Exception" turns it into HTTPException(500).
AfterAddUser(r) ==
    CASE r.op = "get_stocks" -> "summary_active"
      [] r.op = "redeem" -> "get_stocks"
      [] r.op = "post_stocks" /\ r.incrementSlot -> "get_stocks"
      [] r.op = "post_stocks" /\ ~r.incrementSlot /\ r.filledGiven -> "set_stock"
      [] OTHER -> "neither"

GotUser(p, u) ==
    IF AfterAddUser(req[p]) = "neither"
    THEN Fail(p, 500)
    ELSE Goto(p, AfterAddUser(req[p]), [loc[p] EXCEPT !.user = u])

\* rq.add_user : the SELECT.
AddUserSelect(p) ==
    /\ pc[p] = "add_user_select"
    /\ LET u == UserByTgId(users, req[p].tg_id) IN
        IF u # 0 THEN GotUser(p, u) ELSE Goto(p, "add_user_commit", loc[p])
    /\ UNCHANGED <<users, stocks, admin_ids, max_stocks, req, pre, again, streak>>

\* Mutant of AddUserCommit: a new user starts with one paid slot.
AddUserCommitWithSlot(p) ==
    /\ pc[p] = "add_user_commit"
    /\ IF UserByTgId(users, req[p].tg_id) # 0
       THEN /\ Fail(p, 500)
            /\ UNCHANGED <<users, stocks>>
       ELSE /\ users' = Append(users, NewUser(req[p].tg_id, NONE, NONE, NonePhone, NONE))
            /\ stocks' = Append(stocks, NewStock(Len(users) + 1, PAID_HOOKAH_TITLE))
            /\ GotUser(p, Len(users) + 1)
    /\ UNCHANGED <<admin_ids, max_stocks, req, pre, again, streak>>

\* rq.add_user : session.add(User(tg_id)) and commit.  users.tg_id is unique:
\* the INSERT of a second row raises IntegrityError, re-raised as DatabaseError,
\* which every caller answers with 500.
AddUserCommit(p) ==
    /\ pc[p] = "add_user_commit"
    /\ IF UserByTgId(users, req[p].tg_id) # 0
       THEN /\ Fail(p, 500)
            /\ UNCHANGED users
       ELSE /\ users' = Append(users, NewUser(req[p].tg_id, NONE, NONE, NonePhone, NONE))
            /\ GotUser(p, Len(users) + 1)
    /\ UNCHANGED <<stocks, admin_ids, max_stocks, req, pre, again, streak>>

\* rq.increment_stock : current_stocks = await get_stocks(user_id)
GetStocks(p) ==
    /\ pc[p] = "get_stocks"
    /\ LET n == Len(get_stocks(stocks, loc[p].user)) IN
        Goto(p, IF MaxReached(n) THEN "set_stock" ELSE "add_slot", [loc[p] EXCEPT !.cur = n])
    /\ UNCHANGED <<users, stocks, admin_ids, max_stocks, req, pre, again, streak>>

\* rq.set_stock, called by update_stock (filledSlots) or by increment_stock.
SetStock(p) ==
    /\ pc[p] = "set_stock"
    /\ stocks' = set_stock(stocks, loc[p].user, req[p].filledSlots)
    /\ Goto(p, IF Adds(req[p]) THEN "add_slot" ELSE "mirror", loc[p])
    /\ UNCHANGED <<users, admin_ids, max_stocks, req, pre, again, streak>>

\* One more completed Increment of that guest, counted since the last Set-filled.
StreakInc(tg) == [streak EXCEPT ![tg].n = @ + 1, ![tg].prev = 0]

\* A completed Set-filled of that guest ends the run of Increments.
StreakEnd(tg) == [streak EXCEPT ![tg] = [n |-> 0, base |-> Len(stocks), prev |-> @.n]]

\* Mutant of AddSlot: an Increment whose pending rows changed since it read
\* them is taken for a repeat and adds nothing.
AddSlotDedup(p, track) ==
    /\ pc[p] = "add_slot"
    /\ stocks' = IF Cardinality(PendingIds(stocks, loc[p].user)) > loc[p].cur
                 THEN stocks
                 ELSE Append(stocks, NewStock(loc[p].user, SlotTitle(loc[p].cur)))
    /\ IF req[p].op = "redeem"
       THEN /\ Done(p, [NoResp EXCEPT !.status = 200])
            /\ streak' = IF track THEN StreakInc(req[p].tg_id) ELSE streak
       ELSE /\ Goto(p, "mirror", loc[p])
            /\ UNCHANGED streak
    /\ UNCHANGED <<users, admin_ids, max_stocks, req, pre, again>>

\* rq.increment_stock : session.add(new_slot) and commit.  _redeem_core answers
\* right after it; update_stock goes on to the summary.
AddSlot(p, track) ==
    /\ pc[p] = "add_slot"
    /\ stocks' = Append(stocks, NewStock(loc[p].user, SlotTitle(loc[p].cur)))
    /\ IF req[p].op = "redeem"
       THEN /\ Done(p, [NoResp EXCEPT !.status = 200])
            /\ streak' = IF track THEN StreakInc(req[p].tg_id) ELSE streak
       ELSE /\ Goto(p, "mirror", loc[p])
            /\ UNCHANGED streak
    /\ UNCHANGED <<users, admin_ids, max_stocks, req, pre, again>>

\* Mutant of Mirror: a mirror call that raises ends the request with 500.
MirrorPropagates(p, track) ==
    /\ pc[p] = "mirror"
    /\ \E o \in MirrorOutcomes :
        IF o = "raised"
        THEN Done(p, [NoResp EXCEPT !.status = 500])
        ELSE Goto(p, "summary_active", [loc[p] EXCEPT !.mirror = IF track THEN o ELSE "none"])
    /\ UNCHANGED <<users, stocks, admin_ids, max_stocks, req, pre, again, streak>>

\* main.send_to_google_sheets, awaited by update_stock after the action: the
\* whole body is inside try / except Exception, so every outcome is logged
\* and the handler goes on to the summary.  With track the outcome is kept.
Mirror(p, track) ==
    /\ pc[p] = "mirror"
    /\ \E o \in MirrorOutcomes :
        Goto(p, "summary_active", [loc[p] EXCEPT !.mirror = IF track THEN o ELSE "none"])
    /\ UNCHANGED <<users, stocks, admin_ids, max_stocks, req, pre, again, streak>>

\* rq.get_stocks_summary : the SELECT of the active rows.
SummaryActive(p) ==
    /\ pc[p] = "summary_active"
    /\ Goto(p, "summary_count", [loc[p] EXCEPT !.active = get_stocks(stocks, loc[p].user)])
    /\ UNCHANGED <<users, stocks, admin_ids, max_stocks, req, pre, again, streak>>

\* rq.get_stocks_summary : the count of completed rows, and the response
\* StockListResponse(stocks, total, completed, available).
SummaryCount(p, track) ==
    /\ pc[p] = "summary_count"
    /\ Done(p, [NoResp EXCEPT !.status = 200,
                              !.stocks = loc[p].active,
                              !.total = Len(loc[p].active),
                              !.completed = get_completed_stocks_count(stocks, loc[p].user),
                              !.available = Len(loc[p].active)])
    /\ streak' =
        IF ~track \/ req[p].op # "post_stocks" THEN streak
        ELSE IF req[p].incrementSlot THEN StreakInc(req[p].tg_id)
        ELSE StreakEnd(req[p].tg_id)
    /\ UNCHANGED <<users, stocks, admin_ids, max_stocks, req, pre, again>>

\* Mutant of GetUser: resolves the user with add_user, which creates it.
GetUserCreating(p) ==
    /\ pc[p] = "get_user"
    /\ LET u == UserByTgId(users, req[p].tg_id) IN
        IF u = 0
        THEN /\ Done(p, [NoResp EXCEPT !.status = 200])
             /\ users' = Append(users, NewUser(req[p].tg_id, NONE, NONE, NonePhone, NONE))
        ELSE /\ Goto(p, "completed_count", [loc[p] EXCEPT !.user = u, !.loaded = users[u]])
             /\ UNCHANGED users
    /\ UNCHANGED <<stocks, admin_ids, max_stocks, req, pre, again, streak>>

\* main.get_profile : get_user_by_tg_id, which never creates a user.
GetUser(p) ==
    /\ pc[p] = "get_user"
    /\ LET u == UserByTgId(users, req[p].tg_id) IN
        IF u = 0
        THEN Done(p, [NoResp EXCEPT !.status = 200])
        ELSE Goto(p, "completed_count", [loc[p] EXCEPT !.user = u, !.loaded = users[u]])
    /\ UNCHANGED <<users, stocks, admin_ids, max_stocks, req, pre, again, streak>>

\* main.get_profile : get_completed_stocks_count and ProfileResponse.
CompletedCount(p) ==
    /\ pc[p] = "completed_count"
    /\ Done(p, [NoResp EXCEPT !.status = 200, !.registered = TRUE,
                              !.completed = get_completed_stocks_count(stocks, loc[p].user),
                              !.user = loc[p].loaded])
    /\ UNCHANGED <<users, stocks, admin_ids, max_stocks, req, pre, again, streak>>

\* main._redeem_core : the two checks on settings.ADMIN_IDS.
RedeemCheck(p) ==
    /\ pc[p] = "redeem_check"
    /\ IF admin_ids = {}
       THEN Fail(p, 500)
       ELSE IF req[p].admin \notin admin_ids
       THEN Fail(p, 403)
       ELSE Goto(p, "add_user_select", loc[p])
    /\ UNCHANGED <<users, stocks, admin_ids, max_stocks, req, pre, again, streak>>

(***************************************************************************)
(* POST /api/register                                                      *)
(***************************************************************************)
\* Validation.  A body that fails RegisterPayload is answered 422 by the
\* framework before the handler runs; the raw-body branch checks tg_id and
\* phone itself and raises 422.
RegValidate(p) ==
    /\ pc[p] = "reg_validate"
    /\ IF req[p].op = "register"
       THEN IF validate_phone(req[p].phone)
            THEN Goto(p, "reg_pre_self", loc[p])
            ELSE Fail(p, 422)
       ELSE IF RawValid(req[p])
            THEN Goto(p, "raw_select", loc[p])
            ELSE Fail(p, 422)
    /\ UNCHANGED <<users, stocks, admin_ids, max_stocks, req, pre, again, streak>>

\* Payload path, pre-check: existing_by_tg.  The owner is looked up only for a
\* truthy phone.
RegPreSelf(p) ==
    /\ pc[p] = "reg_pre_self"
    /\ Goto(p, IF PhoneTruthy(req[p].phone) THEN "reg_pre_owner" ELSE "upd_select",
            [loc[p] EXCEPT !.user = UserByTgId(users, req[p].tg_id)])
    /\ UNCHANGED <<users, stocks, admin_ids, max_stocks, req, pre, again, streak>>

\* Mutant of RegPreOwner: the profile is written before the conflict is
\* reported.
RegPreOwnerLate(p) ==
    /\ pc[p] = "reg_pre_owner"
    /\ \E owner \in UsersByPhone(users, req[p].phone) :
        IF PhoneConflict(owner, loc[p].user)
        THEN /\ Fail(p, 409)
             /\ users' = IF loc[p].user = 0
                         THEN Append(users, Inserted(req[p]))
                         ELSE [users EXCEPT ![loc[p].user] = Assigned(req[p], @)]
        ELSE /\ Goto(p, "upd_select", loc[p])
             /\ UNCHANGED users
    /\ UNCHANGED <<stocks, admin_ids, max_stocks, req, pre, again, streak>>

\* Payload path, pre-check: the owner of the phone; 409 on a conflict.
RegPreOwner(p) ==
    /\ pc[p] = "reg_pre_owner"
    /\ \E owner \in UsersByPhone(users, req[p].phone) :
        IF PhoneConflict(owner, loc[p].user)
        THEN Fail(p, 409)
        ELSE Goto(p, "upd_select", loc[p])
    /\ UNCHANGED <<users, stocks, admin_ids, max_stocks, req, pre, again, streak>>

\* rq.update_user_profile : the SELECT by tg_id, in a session of its own.
UpdSelect(p) ==
    /\ pc[p] = "upd_select"
    /\ LET u == UserByTgId(users, req[p].tg_id) IN
        Goto(p, "upd_commit",
             [loc[p] EXCEPT !.user = u, !.loaded = IF u = 0 THEN NoRow ELSE users[u]])
    /\ UNCHANGED <<users, stocks, admin_ids, max_stocks, req, pre, again, streak>>

\* Mutant of Committed: an existing user is registered as a new row and the
\* old row gives up its tg_id.
CommittedAsNewRow(p) ==
    IF loc[p].user = 0
    THEN Append(users, Inserted(req[p]))
    ELSE Append([users EXCEPT ![loc[p].user].tg_id = 0],
                OrmUpdate(users[loc[p].user], loc[p].loaded,
                          Assigned(req[p], loc[p].loaded)))

\* Mutant of CommitFails: users.tg_id without its unique constraint.
CommitNeverFails(p) == FALSE

\* The commit of a registration: INSERT when the SELECT found no row, else the
\* UPDATE of the loaded row.  TRUE when the commit raises IntegrityError.
CommitFails(p) == loc[p].user = 0 /\ UserByTgId(users, req[p].tg_id) # 0

Committed(p) ==
    IF loc[p].user = 0
    THEN Append(users, Inserted(req[p]))
    ELSE [users EXCEPT ![loc[p].user] =
            OrmUpdate(@, loc[p].loaded, Assigned(req[p], loc[p].loaded))]

\* rq.update_user_profile : session.commit().  IntegrityError is an
\* SQLAlchemyError: DatabaseError, answered 500.
UpdCommit(p) ==
    /\ pc[p] = "upd_commit"
    /\ IF CommitFails(p)
       THEN /\ Fail(p, 500)
            /\ UNCHANGED users
       ELSE /\ users' = Committed(p)
            /\ Goto(p, "upd_refresh",
                    [loc[p] EXCEPT !.user = IF @ = 0 THEN Len(users) + 1 ELSE @])
    /\ UNCHANGED <<stocks, admin_ids, max_stocks, req, pre, again, streak>>

\* rq.update_user_profile : session.refresh(user), and RegisterResponse.
UpdRefresh(p) ==
    /\ pc[p] = "upd_refresh"
    /\ Done(p, [NoResp EXCEPT !.status = 200, !.user = users[loc[p].user]])
    /\ UNCHANGED <<users, stocks, admin_ids, max_stocks, req, pre, again, streak>>

\* Raw-body path: the SELECT by tg_id.
RawSelect(p) ==
    /\ pc[p] = "raw_select"
    /\ LET u == UserByTgId(users, req[p].tg_id) IN
        Goto(p, "raw_owner",
             [loc[p] EXCEPT !.user = u, !.loaded = IF u = 0 THEN NoRow ELSE users[u]])
    /\ UNCHANGED <<users, stocks, admin_ids, max_stocks, req, pre, again, streak>>

\* Raw-body path: the owner of the phone (validated, hence truthy); 409 on a
\* conflict.
RawOwner(p) ==
    /\ pc[p] = "raw_owner"
    /\ \E owner \in UsersByPhone(users, PickPhone(req[p].phone)) :
        IF PhoneConflict(owner, loc[p].user)
        THEN Fail(p, 409)
        ELSE Goto(p, "raw_commit", loc[p])
    /\ UNCHANGED <<users, stocks, admin_ids, max_stocks, req, pre, again, streak>>

\* Raw-body path: session.commit(); IntegrityError is answered 409.  The
\* response carries the User object of the session.
RawCommit(p) ==
    /\ pc[p] = "raw_commit"
    /\ IF CommitFails(p)
       THEN /\ Fail(p, 409)
            /\ UNCHANGED users
       ELSE /\ users' = Committed(p)
            /\ Done(p, [NoResp EXCEPT !.status = 200,
                        !.user = IF loc[p].user = 0
                                 THEN Inserted(req[p])
                                 ELSE Assigned(req[p], loc[p].loaded)])
    /\ UNCHANGED <<stocks, admin_ids, max_stocks, req, pre, again, streak>>

RegisterStep(p) ==
    \/ RegValidate(p)
    \/ RegPreSelf(p)
    \/ RegPreOwner(p)
    \/ UpdSelect(p)
    \/ UpdCommit(p)
    \/ UpdRefresh(p)
    \/ RawSelect(p)
    \/ RawOwner(p)
    \/ RawCommit(p)

\* The steps of POST and GET /api/stocks.
StocksStep(p, track) ==
    \/ AddUserSelect(p)
    \/ AddUserCommit(p)
    \/ GetStocks(p)
    \/ SetStock(p)
    \/ AddSlot(p, track)
    \/ Mirror(p, FALSE)
    \/ SummaryActive(p)
    \/ SummaryCount(p, track)

LedgerStep(p, track) ==
    \/ StocksStep(p, track)
    \/ GetUser(p)
    \/ CompletedCount(p)
    \/ RedeemCheck(p)

\* Small settings, with and without an admin allow-list.
InitSmall == InitWith(SmallMax, {{}, AdminPool})

\* The default settings of config.Settings.
InitDefault == InitWith(MAX_STOCKS_PER_USER, {{}})

\* The requests of the interleaved runs: one value of each ignored input.
ConcLedgerReqs ==
    {r \in LedgerReqs :
        /\ r.op = "post_stocks" => (r.incrementSlot # r.filledGiven) /\ r.filledSlots = 0
        /\ r.op = "redeem" => r.admin \in AdminPool}

\* Ledger requests, any interleaving of two workers.  The history variables
\* pre and streak speak of one request at a time and are not kept here.
NextLedger ==
    \E p \in Procs : StartReq(p, ConcLedgerReqs, FALSE) \/ LedgerStep(p, FALSE)

SpecLedger == InitSmall /\ [][NextLedger]_vars

\* Ledger requests, one request at a time.
NextLedgerSeq == StartReq("r1", LedgerReqs, TRUE) \/ LedgerStep("r1", TRUE)

SpecLedgerSeq == InitSmall /\ [][NextLedgerSeq]_vars

\* POST /api/stocks under the default settings, one request at a time.
NextDefault == StartReq("r1", PostStocksReqs, TRUE) \/ StocksStep("r1", TRUE)

SpecDefault == InitDefault /\ [][NextDefault]_vars

\* The steps that resolve or create a user and read the ledger.
ReadStep(p) ==
    \/ AddUserSelect(p)
    \/ AddUserCommit(p)
    \/ SummaryActive(p)
    \/ SummaryCount(p, TRUE)
    \/ GetUser(p)
    \/ CompletedCount(p)

Paths == {"register", "register_raw"}

\* Registrations, GET /api/stocks and GET /api/main, one request at a time.
RegSeqReqs ==
    RegisterReqs(Paths, Names, {NonePhone, <<>>, Phone1, Phone2})
        \cup GetStocksReqs \cup GetMainReqs

NextRegSeq == StartReq("r1", RegSeqReqs, TRUE) \/ RegisterStep("r1") \/ ReadStep("r1")

SpecRegSeq == InitDefault /\ [][NextRegSeq]_vars

\* Registrations, any interleaving of two workers.
RegReqs == RegisterReqs(Paths, {<<"Test", "User", "testuser">>}, {Phone1, Phone2})

NextReg == \E p \in Procs : StartReq(p, RegReqs, FALSE) \/ RegisterStep(p)

SpecReg == InitDefault /\ [][NextReg]_vars

\* /redeem with every kind of header: absent (0), an admin's, a stranger's.
RedeemHeaderReqs ==
    {[NoReq EXCEPT !.op = "redeem", !.tg_id = tg, !.admin = a] :
        tg \in TgIds, a \in AdminPool \cup Strangers \cup {0}}

\* A /redeem request arrives at an idle worker.
StartRedeem(p, track) ==
    /\ Idle(p)
    /\ \E r \in RedeemHeaderReqs :
        /\ Len(stocks) + InFlightAdds < max_stocks + RedeemRoom
        /\ Arrive(p, r, track)

\* POST /api/stocks with exactly one action.
AccrualReqs ==
    {r \in PostStocksReqs : r.incrementSlot # r.filledGiven /\ r.filledSlots = 0}

\* Accrual and /redeem, one request at a time, with and without an allow-list.
NextRedeem ==
    \/ StartReq("r1", AccrualReqs, TRUE)
    \/ StartRedeem("r1", TRUE)
    \/ StocksStep("r1", TRUE)
    \/ RedeemCheck("r1")

SpecRedeem == InitSmall /\ [][NextRedeem]_vars

\* POST /api/stocks with neither incrementSlot nor filledSlots.
NeitherReqs == {r \in PostStocksReqs : ~r.incrementSlot /\ ~r.filledGiven}

\* Registrations with well-formed and malformed phones, for the usual ids and
\* for tg_id = 0.
ValPhones == {NonePhone, Phone1, ShortPhone, PaddedPhone, WordPhone}

ValRegisterReqs ==
    LET R == RegisterReqs(Paths, {<<"Test", "User", "testuser">>}, ValPhones)
    IN R \cup {[r EXCEPT !.tg_id = 0] : r \in R}

\* Requests that validation should stop, and some it should not, one request
\* at a time.
NextVal ==
    \/ StartReq("r1", ValRegisterReqs \cup NeitherReqs, TRUE)
    \/ RegisterStep("r1")
    \/ AddUserSelect("r1")
    \/ AddUserCommit("r1")

SpecVal == InitDefault /\ [][NextVal]_vars

\* A storage statement of add_user, get_stocks, set_stock or increment_stock
\* raises SQLAlchemyError (an I/O fault): its session writes nothing,
\* DatabaseError goes up to the handler, which answers 500.
StorageFault(p) ==
    /\ pc[p] \in {"add_user_select", "add_user_commit", "get_stocks", "set_stock", "add_slot"}
    /\ Fail(p, 500)
    /\ UNCHANGED <<users, stocks, admin_ids, max_stocks, req, pre, again, streak>>

\* Accrual with storage faults, one request at a time.
NextFault ==
    \/ StartReq("r1", AccrualReqs, TRUE)
    \/ StocksStep("r1", TRUE)
    \/ StorageFault("r1")

SpecFault == InitSmall /\ [][NextFault]_vars

\* Registrations, add_user, accrual and /redeem, any interleaving of two
\* workers.
MixReqs ==
    RegisterReqs(Paths, {<<"Test", "User", "testuser">>}, {Phone1})
        \cup GetStocksReqs
        \cup {r \in AccrualReqs : r.incrementSlot}
        \cup {r \in RedeemReqs : r.admin \in AdminPool}

InitMix == InitWith(TinyMax, {AdminPool})

NextMix ==
    \E p \in Procs :
        \/ StartReq(p, MixReqs, FALSE)
        \/ RegisterStep(p)
        \/ StocksStep(p, FALSE)
        \/ RedeemCheck(p)

SpecMix == InitMix /\ [][NextMix]_vars

\* Accrual with the outcome of each mirror call on record, one request at a
\* time.
NextMirror ==
    \/ StartReq("r1", AccrualReqs, TRUE)
    \/ AddUserSelect("r1")
    \/ AddUserCommit("r1")
    \/ GetStocks("r1")
    \/ SetStock("r1")
    \/ AddSlot("r1", TRUE)
    \/ Mirror("r1", TRUE)
    \/ SummaryActive("r1")
    \/ SummaryCount("r1", TRUE)

SpecMirror == InitSmall /\ [][NextMirror]_vars

\* A request of R arrives at an idle worker while no request for the same
\* tg_id is running.
StartExclusive(p, R) ==
    /\ Idle(p)
    /\ \E r \in R :
        /\ \A q \in Procs \ {p} : Idle(q) \/ req[q].tg_id # r.tg_id
        /\ Adds(r) => Len(stocks) + InFlightAdds < max_stocks + Room
        /\ Arrive(p, r, FALSE)

\* Increment, Set-filled, registration and admin /redeem requests.
PerUserReqs ==
    AccrualReqs
        \cup {r \in RedeemReqs : r.admin \in AdminPool}
        \cup RegisterReqs(Paths, {<<"Test", "User", "testuser">>}, {Phone1})

InitAdmin == InitWith(SmallMax, {AdminPool})

\* Two workers, the requests of one tg_id one after another, those of
\* different tg_ids interleaved.
NextPerUser ==
    \E p \in Procs :
        \/ StartExclusive(p, PerUserReqs)
        \/ StocksStep(p, FALSE)
        \/ RedeemCheck(p)
        \/ RegisterStep(p)

SpecPerUser == InitAdmin /\ [][NextPerUser]_vars

\* Increments only, through POST /api/stocks and through admin /redeem.
IncReqs ==
    {r \in AccrualReqs : r.incrementSlot} \cup {r \in RedeemReqs : r.admin \in AdminPool}

\* Increments, any interleaving of two workers, with the count of the
\* Increments answered 200 kept in streak.
NextIncs ==
    \E p \in Procs :
        \/ StartReq(p, IncReqs, TRUE)
        \/ StocksStep(p, TRUE)
        \/ RedeemCheck(p)

SpecIncs == InitAdmin /\ [][NextIncs]_vars

\* The four endpoints that reach the tables: /api/stocks, /api/main,
\* /api/register and /redeem.
AllReqs ==
    RegisterReqs(Paths, {<<"Test", "User", "testuser">>}, {Phone1})
        \cup AccrualReqs
        \cup GetMainReqs
        \cup {r \in RedeemReqs : r.admin \in AdminPool}

\* All of them, any interleaving of two workers.
NextAll ==
    \E p \in Procs :
        \/ StartReq(p, AllReqs, FALSE)
        \/ RegisterStep(p)
        \/ LedgerStep(p, FALSE)

SpecAll == InitMix /\ [][NextAll]_vars

\* POST /api/stocks with every combination of actions and /redeem with every
\* header, one request at a time, with the outcome of each mirror call on
\* record.
NextEvents ==
    \/ StartReq("r1", PostStocksReqs, TRUE)
    \/ StartRedeem("r1", TRUE)
    \/ AddUserSelect("r1")
    \/ AddUserCommit("r1")
    \/ GetStocks("r1")
    \/ SetStock("r1")
    \/ AddSlot("r1", TRUE)
    \/ Mirror("r1", TRUE)
    \/ SummaryActive("r1")
    \/ SummaryCount("r1", TRUE)
    \/ RedeemCheck("r1")

SpecEvents == InitSmall /\ [][NextEvents]_vars

(***************************************************************************)
(* Properties                                                              *)
(***************************************************************************)
RowsOf(st, uid) == {i \in DOMAIN st : st[i].user_id = uid}

UidOf(tg) == UserByTgId(users, tg)

Quiescent == \A p \in Procs : Idle(p)

\* Worker p has answered 200 to an Increment for tg (POST /api/stocks or redeem).
IncDone(p, tg) ==
    pc[p] = "done" /\ Adds(req[p]) /\ req[p].tg_id = tg /\ resp[p].status = 200

\* The request of worker p is a Set-filled for tg.
IsFill(p, tg) ==
    /\ req[p].op = "post_stocks" /\ req[p].tg_id = tg
    /\ ~req[p].incrementSlot /\ req[p].filledGiven

FillDone(p, tg) == pc[p] = "done" /\ IsFill(p, tg) /\ resp[p].status = 200

IsRegister(p) == req[p].op \in Paths

\* C1: for every user the number of rows with completed = FALSE is at most
\* MAX_STOCKS_PER_USER, in every state and under every interleaving of Increments.
C1_PendingWithinMax ==
    \A u \in DOMAIN users : Cardinality(PendingIds(stocks, u)) <= max_stocks

\* The ledgers of user uid that requests run one after another can produce:
\* closed under the Increment and the Set-filled of one request, up to k requests.
SerialInc(l, uid) ==
    LET n == Len(get_stocks(l, uid)) IN
    Append(IF MaxReached(n) THEN set_stock(l, uid, 0) ELSE l, NewStock(uid, SlotTitle(n)))

RECURSIVE SerialLedgers(_, _)
SerialLedgers(uid, k) ==
    IF k = 0 THEN {<<>>}
    ELSE LET S == SerialLedgers(uid, k - 1) IN
         S \cup {SerialInc(l, uid) : l \in {x \in S : Len(x) < max_stocks + Room}}
           \cup {set_stock(l, uid, 0) : l \in S}

\* C2: requests for one user are serialized: whenever all requests have
\* ended, each user's ledger is one that some one-after-another run of
\* Increments and Set-filleds produces.
C2_Serializable ==
    Quiescent =>
        \A u \in DOMAIN users :
            SelectSeq(stocks, LAMBDA r : r.user_id = u)
                \in SerialLedgers(u, 2 * (max_stocks + Room) + 1)

\* The rows added for tg since its run of Increments began.
Added(tg) == {i \in RowsOf(stocks, UidOf(tg)) : i > streak[tg].base}

\* All added rows but the newest are completed, and the newest is the only
\* pending row of the user, labeled free-reward.
RolledOver(tg) ==
    LET A == Added(tg)
        last == CHOOSE i \in A : \A j \in A : j <= i
    IN /\ A # {}
       /\ \A i \in A \ {last} : stocks[i].completed
       /\ PendingIds(stocks, UidOf(tg)) = {last}
       /\ stocks[last].title = FREE_HOOKAH_TITLE

\* C3 as stated: from zero pending rows, MAX_STOCKS_PER_USER Increments in
\* sequence end with the earlier rows completed and one pending free-reward row.
C3_AsStated ==
    \A p \in Procs, tg \in TgIds :
        IncDone(p, tg) /\ streak[tg].n = max_stocks => RolledOver(tg)

\* C3 amended: from zero pending rows, MAX_STOCKS_PER_USER + 1 Increments in
\* sequence end with the MAX_STOCKS_PER_USER rows added before the last one
\* completed and exactly one pending row, the last, labeled free-reward.
C3_RolloverAfterMaxPlusOne ==
    \A p \in Procs, tg \in TgIds :
        IncDone(p, tg) /\ streak[tg].n = max_stocks + 1 =>
            /\ Cardinality(Added(tg)) = max_stocks + 1
            /\ RolledOver(tg)

C3_Witness ==
    \E p \in Procs, tg \in TgIds :
        /\ IncDone(p, tg) /\ streak[tg].n = max_stocks + 1
        /\ Cardinality(PendingIds(stocks, UidOf(tg))) = 1

\* The user of tg has the given number of completed rows, and its pending
\* rows are the given number, all labeled free-reward.
Ledger(tg, completed, pendingFree) ==
    LET u == UidOf(tg) IN
    /\ Cardinality(CompletedIds(stocks, u)) = completed
    /\ Cardinality(PendingIds(stocks, u)) = pendingFree
    /\ \A i \in PendingIds(stocks, u) : stocks[i].title = FREE_HOOKAH_TITLE

\* C4 as stated: with MAX_STOCKS_PER_USER = 5, after 5 Increments on a fresh
\* user the completed count is 5 and the only pending row is a free-reward row.
C4_AsStated ==
    \A p \in Procs, tg \in TgIds :
        /\ max_stocks = MAX_STOCKS_PER_USER
        /\ IncDone(p, tg)
        /\ streak[tg].n = MAX_STOCKS_PER_USER
        /\ Cardinality(RowsOf(stocks, UidOf(tg))) = MAX_STOCKS_PER_USER
        => Ledger(tg, MAX_STOCKS_PER_USER, 1)

\* C4 amended: with MAX_STOCKS_PER_USER = 5, after 6 Increments on a fresh
\* user the completed count is 5 and the only pending row is a free-reward
\* row; a following Set-filled leaves no pending row, the free-reward row
\* completed and a completed count of 6.
C4_ScenarioAfterSix ==
    \A p \in Procs, tg \in TgIds :
        /\ (/\ max_stocks = MAX_STOCKS_PER_USER
            /\ IncDone(p, tg)
            /\ streak[tg].n = MAX_STOCKS_PER_USER + 1
            /\ Cardinality(RowsOf(stocks, UidOf(tg))) = MAX_STOCKS_PER_USER + 1)
           => /\ Ledger(tg, MAX_STOCKS_PER_USER, 1)
              /\ req[p].op = "post_stocks" =>
                    resp[p].completed = MAX_STOCKS_PER_USER /\ resp[p].total = 1
        /\ (/\ max_stocks = MAX_STOCKS_PER_USER
            /\ FillDone(p, tg)
            /\ streak[tg].prev = MAX_STOCKS_PER_USER + 1
            /\ Cardinality(RowsOf(stocks, UidOf(tg))) = MAX_STOCKS_PER_USER + 1)
           => /\ Ledger(tg, MAX_STOCKS_PER_USER + 1, 0)
              /\ \E i \in CompletedIds(stocks, UidOf(tg)) :
                    stocks[i].title = FREE_HOOKAH_TITLE
              /\ resp[p].completed = MAX_STOCKS_PER_USER + 1 /\ resp[p].total = 0

C4_Witness ==
    \E p \in Procs, tg \in TgIds :
        /\ max_stocks = MAX_STOCKS_PER_USER
        /\ FillDone(p, tg)
        /\ streak[tg].prev = MAX_STOCKS_PER_USER + 1
        /\ Cardinality(CompletedIds(stocks, UidOf(tg))) = MAX_STOCKS_PER_USER + 1

\* C5: a Set-filled run alone is answered 200 and ends with no pending row of
\* the user, whatever the number of pending rows before and whatever
\* filledSlots says: each row that was pending is completed, no row is
\* removed or added and no other row changes.
C5_SetFilledCompletesAll ==
    \A p \in Procs, tg \in TgIds :
        pc[p] = "done" /\ IsFill(p, tg) =>
            /\ resp[p].status = 200
            /\ PendingIds(stocks, UidOf(tg)) = {}
            /\ resp[p].total = 0 /\ resp[p].stocks = <<>>
            /\ DOMAIN stocks = DOMAIN pre[p].stocks
            /\ \A i \in DOMAIN stocks :
                stocks[i] = IF pre[p].stocks[i].user_id = UidOf(tg)
                            THEN [pre[p].stocks[i] EXCEPT !.completed = TRUE]
                            ELSE pre[p].stocks[i]

C5_Witness ==
    \E p \in Procs, tg \in TgIds :
        /\ pc[p] = "done" /\ IsFill(p, tg)
        /\ Cardinality(PendingIds(pre[p].stocks, UidOf(tg))) = max_stocks
        /\ req[p].filledSlots = 0

\* C6: no two distinct users hold the same non-empty phone, in every state
\* and under every interleaving of registrations.
C6_PhoneUnique ==
    \A i, j \in DOMAIN users :
        i # j /\ PhoneTruthy(users[i].phone) => users[i].phone # users[j].phone

\* The registration passes validation: RegisterPayload's on one path, the
\* handler's own checks on the other.
Valid(r) == IF r.op = "register" THEN validate_phone(r.phone) ELSE RawValid(r)

\* Another external ID than the caller's held the request's phone when the
\* registration of worker p arrived.
HeldByOther(p) ==
    /\ PhoneTruthy(req[p].phone)
    /\ \E i \in DOMAIN pre[p].users :
        /\ pre[p].users[i].phone = req[p].phone
        /\ pre[p].users[i].tg_id # req[p].tg_id

C8_ConflictMutatesNothing ==
    \A p \in Procs :
        pc[p] = "done" /\ IsRegister(p) /\ resp[p].status = 409 =>
            users = pre[p].users /\ stocks = pre[p].stocks

C8_Witness ==
    \E p \in Procs :
        /\ pc[p] = "done" /\ IsRegister(p) /\ resp[p].status = 409
        /\ UserByTgId(users, req[p].tg_id) # 0
        /\ req[p].first_name # users[UserByTgId(users, req[p].tg_id)].first_name

\* C9: a registration that repeats, with the same arguments, the one answered
\* 200 just before is answered 200 too, leaves the stored profile as the first
\* one left it and leaves exactly one user of that external ID.
C9_RegisterIdempotent ==
    \A p \in Procs :
        pc[p] = "done" /\ IsRegister(p) /\ again[p] =>
            /\ resp[p].status = 200
            /\ users = pre[p].users
            /\ Cardinality({i \in DOMAIN users : users[i].tg_id = req[p].tg_id}) = 1

C9_Witness ==
    \E p \in Procs :
        /\ pc[p] = "done" /\ IsRegister(p) /\ again[p]
        /\ PhoneTruthy(req[p].phone)
        /\ resp[p].status = 200

\* C10: GET /api/main for an external ID without a user answers
\* registered = false and completedStocks = 0 and changes neither table; a
\* GET /api/stocks for an external ID without a user reports no pending and
\* no completed row.
C10_ProfileDoesNotCreate ==
    \A p \in Procs :
        pc[p] = "done" /\ UserByTgId(pre[p].users, req[p].tg_id) = 0 =>
            /\ req[p].op = "get_main" =>
                /\ resp[p].status = 200
                /\ ~resp[p].registered /\ resp[p].completed = 0
                /\ users = pre[p].users /\ stocks = pre[p].stocks
            /\ req[p].op = "get_stocks" =>
                /\ resp[p].status = 200
                /\ resp[p].stocks = <<>> /\ resp[p].total = 0
                /\ resp[p].completed = 0 /\ resp[p].available = 0

C10_Witness ==
    \E p \in Procs :
        /\ pc[p] = "done" /\ req[p].op = "get_main"
        /\ UserByTgId(users, req[p].tg_id) = 0
        /\ stocks # <<>>

\* C11: a /redeem request whose X-Telegram-ID is absent or not in ADMIN_IDS is
\* answered 403 under every ADMIN_IDS setting, the empty one too, and changes
\* neither the users nor the stocks table.
C11_NonAdminForbidden ==
    \A p \in Procs :
        pc[p] = "done" /\ req[p].op = "redeem" /\ req[p].admin \notin admin_ids =>
            /\ resp[p].status = 403
            /\ users = pre[p].users /\ stocks = pre[p].stocks

\* The request of worker p is a POST /api/stocks that names neither action.
IsNeither(p) ==
    req[p].op = "post_stocks" /\ ~req[p].incrementSlot /\ ~req[p].filledGiven

\* C12: a POST /api/stocks with neither incrementSlot (absent or false) nor
\* filledSlots is answered with a client error, a 4xx status, not a 5xx one.
C12_NeitherIsClientError ==
    \A p \in Procs :
        pc[p] = "done" /\ IsNeither(p) => resp[p].status \in 400..499

\* C13: a POST /api/stocks rejected for naming neither action, and a
\* registration answered 422, leave the users and the stocks table as they
\* were when the request arrived; no user is created for a new tg_id.
C13_RejectedBeforeMutation ==
    \A p \in Procs :
        /\ pc[p] = "done"
        /\ IsNeither(p) \/ (IsRegister(p) /\ resp[p].status = 422)
        => users = pre[p].users /\ stocks = pre[p].stocks

\* What the claim calls a phone number: digits, with "+", "-" and blanks
\* allowed between them.
PhoneNumber(v) == IsDigit(Replace(Replace(Replace(v, "+"), "-"), " "))

\* A phone that is provided and malformed: fewer than 5 characters after
\* trimming, or not a phone number.
Malformed(v) == PhoneTruthy(v) /\ (Len(Strip(v)) < 5 \/ ~PhoneNumber(v))

\* C17: a registration whose tg_id is not positive, or whose phone is provided
\* and malformed, is answered 422 and writes nothing.
C17_MalformedRejected ==
    \A p \in Procs :
        /\ pc[p] = "done" /\ IsRegister(p)
        /\ req[p].tg_id = 0 \/ Malformed(req[p].phone)
        => /\ resp[p].status = 422
           /\ users = pre[p].users /\ stocks = pre[p].stocks

\* C14: an Increment that fails on a storage error, at whichever of its
\* storage steps, leaves the stocks table as it was when the request arrived.
C14_FailedIncrementLeavesLedger ==
    \A p \in Procs :
        /\ pc[p] = "done" /\ req[p].op = "post_stocks" /\ req[p].incrementSlot
        /\ resp[p].status = 500
        => stocks = pre[p].stocks

\* C15: a registration whose commit hits a uniqueness violation raised by a
\* concurrent registration is answered 409, on both paths; without storage
\* faults no registration is answered with the server error 500.
C15_LateConflictIs409 ==
    \A p \in Procs :
        pc[p] = "done" /\ IsRegister(p) => resp[p].status \in {200, 409, 422}

\* Absent and empty are the same supplied value.
Same(a, b) == a = b \/ (~Truthy(a) /\ ~Truthy(b))
SamePhone(a, b) == a = b \/ (~PhoneTruthy(a) /\ ~PhoneTruthy(b))

\* C16: after a registration answered 200 exactly one user has the request's
\* tg_id and its first name, last name, phone and username equal the supplied
\* arguments, also the absent ones; the row is the one that existed, or one
\* new row; no other row changed.
C16_RegisterOverwrites ==
    \A p \in Procs :
        pc[p] = "done" /\ IsRegister(p) /\ resp[p].status = 200 =>
            LET tg == req[p].tg_id
                was == UserByTgId(pre[p].users, tg)
                now == UserByTgId(users, tg)
            IN /\ Cardinality({i \in DOMAIN users : users[i].tg_id = tg}) = 1
               /\ Len(users) = Len(pre[p].users) + (IF was = 0 THEN 1 ELSE 0)
               /\ was # 0 => now = was
               /\ \A i \in DOMAIN pre[p].users : i # was => users[i] = pre[p].users[i]
               /\ Same(users[now].first_name, req[p].first_name)
               /\ Same(users[now].last_name, req[p].last_name)
               /\ SamePhone(users[now].phone, req[p].phone)
               /\ Same(users[now].username, req[p].username)

\* The completed free-reward rows of a user.
FreeDone(st, uid) == {i \in CompletedIds(st, uid) : st[i].title = FREE_HOOKAH_TITLE}

\* C18: a /redeem by an allow-listed admin, for a guest that has a completed
\* free-reward row, removes one such row: the guest has one completed
\* free-reward row less and the stocks table one row less.
C18_RedeemDeletesFreeReward ==
    \A p \in Procs :
        LET u == UserByTgId(pre[p].users, req[p].tg_id) IN
        /\ pc[p] = "done" /\ req[p].op = "redeem" /\ resp[p].status = 200
        /\ u # 0 /\ FreeDone(pre[p].stocks, u) # {}
        => /\ Cardinality(FreeDone(stocks, u)) + 1 = Cardinality(FreeDone(pre[p].stocks, u))
           /\ Len(stocks) + 1 = Len(pre[p].stocks)

\* C19: add_user fails only on a storage fault: every POST or GET /api/stocks
\* with a well-formed body is answered 200, also when two requests for the
\* same new tg_id run concurrently.
C19_AddUserSucceeds ==
    \A p \in Procs :
        pc[p] = "done" /\ req[p].op \in {"post_stocks", "get_stocks"} =>
            resp[p].status = 200

\* No two rows of users carry the same tg_id.
UniqueTgId == \A i, j \in DOMAIN users : i # j => users[i].tg_id # users[j].tg_id

\* A step keeps every row of users and the tg_id of each.
TgIdStable ==
    \A i \in DOMAIN users : i \in DOMAIN users' /\ users'[i].tg_id = users[i].tg_id

\* C20: in every reachable state at most one user exists per tg_id, and no
\* step changes the tg_id of a user or removes a user, under every
\* interleaving of add_user, registration, accrual and /redeem requests.
C20_OneUserPerTgId == []UniqueTgId /\ [][TgIdStable]_vars

C20_Witness ==
    \E p, q \in Procs :
        /\ pc[p] = "done" /\ pc[q] = "done"
        /\ ~IsRegister(p) /\ resp[p].status = 200
        /\ IsRegister(q) /\ req[q].tg_id = req[p].tg_id
        /\ resp[q].status \in {409, 500}
        /\ Len(users) = 1

\* The Increment rule, from table old to table new, for user uid with P
\* pending rows: one row is added at the end, pending; with P >= MAX it is
\* labeled free-reward and every row of uid is completed, else it is labeled
\* paid and no row changes.
IsIncrement(old, new, uid) ==
    LET P == Cardinality({i \in DOMAIN old : old[i].user_id = uid /\ ~old[i].completed})
        full == P >= max_stocks
    IN /\ Len(new) = Len(old) + 1
       /\ new[Len(new)] =
            [user_id |-> uid, completed |-> FALSE,
             title |-> IF full THEN FREE_HOOKAH_TITLE ELSE PAID_HOOKAH_TITLE]
       /\ \A i \in DOMAIN old :
            new[i] = IF full /\ old[i].user_id = uid
                     THEN [old[i] EXCEPT !.completed = TRUE]
                     ELSE old[i]

\* The request of worker p is a POST /api/stocks with incrementSlot = true and
\* a filledSlots value.
IsBoth(p) == req[p].op = "post_stocks" /\ req[p].incrementSlot /\ req[p].filledGiven

\* C21: a POST /api/stocks with both incrementSlot = true and a filledSlots
\* value is answered 200 and changes the stocks table exactly as one Increment
\* does; below the cap no pending row is completed.
C21_BothTakesIncrement ==
    \A p \in Procs :
        pc[p] = "done" /\ IsBoth(p) =>
            /\ resp[p].status = 200
            /\ IsIncrement(pre[p].stocks, stocks, UidOf(req[p].tg_id))

C21_Witness ==
    \E p \in Procs :
        /\ pc[p] = "done" /\ IsBoth(p) /\ resp[p].status = 200
        /\ req[p].filledSlots = 3
        /\ Cardinality(PendingIds(stocks, UidOf(req[p].tg_id))) = 2

\* The request of worker p is a GET or a POST /api/stocks.
IsStocks(p) == req[p].op \in {"post_stocks", "get_stocks"}

\* The rows that a list of row ids names.
Listed(l) == {l[k] : k \in DOMAIN l}

\* C22: the summary that GET and POST /api/stocks answer describes the
\* stored ledger: the stocks list holds exactly the user's pending rows, each
\* once, total and available both equal their number, and completed equals
\* the number of the user's completed rows.
C22_SummaryMatchesLedger ==
    \A p \in Procs :
        pc[p] = "done" /\ IsStocks(p) /\ resp[p].status = 200 =>
            LET u == UidOf(req[p].tg_id)
                pending == {i \in DOMAIN stocks : stocks[i].user_id = u /\ ~stocks[i].completed}
                finished == {i \in DOMAIN stocks : stocks[i].user_id = u /\ stocks[i].completed}
            IN /\ Listed(resp[p].stocks) = pending
               /\ Len(resp[p].stocks) = Cardinality(pending)
               /\ resp[p].total = Cardinality(pending)
               /\ resp[p].available = Cardinality(pending)
               /\ resp[p].completed = Cardinality(finished)

C22_Witness ==
    \E p \in Procs :
        /\ pc[p] = "done" /\ IsStocks(p) /\ resp[p].status = 200
        /\ resp[p].total = 1 /\ resp[p].completed = 2

\* What a Set-filled does to table old for user uid.
IsSetFilled(old, new, uid) ==
    /\ Len(new) = Len(old)
    /\ \A i \in DOMAIN old :
        new[i] = IF old[i].user_id = uid THEN [old[i] EXCEPT !.completed = TRUE] ELSE old[i]

\* C23: the outcome of the mirror call changes nothing: whether it replied
\* 200, replied with another status or raised, an accrual request is answered
\* 200 with the summary of the ledger, and the ledger is the one the Increment
\* or the Set-filled alone produces.
C23_MirrorFailureNotPropagated ==
    \A p \in Procs :
        pc[p] = "done" /\ req[p].op = "post_stocks" =>
            LET u == UidOf(req[p].tg_id) IN
            /\ loc[p].mirror \in MirrorOutcomes
            /\ resp[p].status = 200
            /\ resp[p].total = Cardinality(PendingIds(stocks, u))
            /\ resp[p].completed = Cardinality(CompletedIds(stocks, u))
            /\ IF req[p].incrementSlot
               THEN IsIncrement(pre[p].stocks, stocks, u)
               ELSE IsSetFilled(pre[p].stocks, stocks, u)

C23_Witness ==
    \E p \in Procs :
        /\ pc[p] = "done" /\ req[p].op = "post_stocks" /\ req[p].incrementSlot
        /\ loc[p].mirror = "raised"
        /\ resp[p].status = 200 /\ resp[p].total = 2

\* C24: GET /api/stocks for a tg_id without a user is answered 200, adds
\* exactly one user, with that tg_id and no profile field set, adds no slot
\* row and reports an empty stocks list, total 0, completed 0 and available 0.
C24_GetStocksCreatesUser ==
    \A p \in Procs :
        /\ pc[p] = "done" /\ req[p].op = "get_stocks"
        /\ \A i \in DOMAIN pre[p].users : pre[p].users[i].tg_id # req[p].tg_id
        => /\ resp[p].status = 200
           /\ Len(users) = Len(pre[p].users) + 1
           /\ \A i \in DOMAIN pre[p].users : users[i] = pre[p].users[i]
           /\ users[Len(users)] =
                [tg_id |-> req[p].tg_id, first_name |-> NONE, last_name |-> NONE,
                 phone |-> NonePhone, username |-> NONE]
           /\ stocks = pre[p].stocks
           /\ resp[p].stocks = <<>> /\ resp[p].total = 0
           /\ resp[p].completed = 0 /\ resp[p].available = 0

C24_Witness ==
    \E p \in Procs :
        /\ pc[p] = "done" /\ req[p].op = "get_stocks"
        /\ UserByTgId(pre[p].users, req[p].tg_id) = 0
        /\ Len(users) = 2 /\ stocks # <<>>
        /\ resp[p].status = 200

\* C25: a /redeem whose X-Telegram-ID is in ADMIN_IDS is answered 200, creates
\* the guest when it has no user, and applies the Increment rule once: one
\* row is added, for the guest, and no row of another user changes.
C25_RedeemGrantsOneSlot ==
    \A p \in Procs :
        pc[p] = "done" /\ req[p].op = "redeem" /\ req[p].admin \in admin_ids =>
            LET tg == req[p].tg_id
                u == UidOf(tg)
            IN /\ resp[p].status = 200
               /\ u # 0
               /\ users = IF \E i \in DOMAIN pre[p].users : pre[p].users[i].tg_id = tg
                          THEN pre[p].users
                          ELSE Append(pre[p].users, NewUser(tg, NONE, NONE, NonePhone, NONE))
               /\ IsIncrement(pre[p].stocks, stocks, u)
               /\ \A i \in DOMAIN pre[p].stocks :
                    pre[p].stocks[i].user_id # u => stocks[i] = pre[p].stocks[i]

C25_Witness ==
    \E p \in Procs :
        /\ pc[p] = "done" /\ req[p].op = "redeem" /\ resp[p].status = 200
        /\ stocks[Len(stocks)].title = FREE_HOOKAH_TITLE
        /\ \E i \in DOMAIN stocks : stocks[i].user_id # UidOf(req[p].tg_id)

\* C26: an Increment run alone on a user with P pending rows adds one row.
\* With P >= MAX_STOCKS_PER_USER the P pending rows become completed (the
\* completed count grows by P) and the new row, labeled free-reward, is the
\* only pending one; with P < MAX_STOCKS_PER_USER the new row is labeled paid,
\* P + 1 rows are pending and the completed count is unchanged.
C26_IncrementRule ==
    \A p \in Procs :
        pc[p] = "done" /\ Adds(req[p]) /\ resp[p].status = 200 =>
            LET u == UidOf(req[p].tg_id)
                P == Cardinality(PendingIds(pre[p].stocks, u))
                done == Cardinality(CompletedIds(pre[p].stocks, u))
                last == stocks[Len(stocks)]
            IN /\ Len(stocks) = Len(pre[p].stocks) + 1
               /\ last.user_id = u /\ ~last.completed
               /\ IF P >= max_stocks
                  THEN /\ last.title = FREE_HOOKAH_TITLE
                       /\ PendingIds(stocks, u) = {Len(stocks)}
                       /\ Cardinality(CompletedIds(stocks, u)) = done + P
                       /\ \A i \in PendingIds(pre[p].stocks, u) : stocks[i].completed
                  ELSE /\ last.title = PAID_HOOKAH_TITLE
                       /\ Cardinality(PendingIds(stocks, u)) = P + 1
                       /\ Cardinality(CompletedIds(stocks, u)) = done

C26_Witness ==
    \E p \in Procs :
        /\ pc[p] = "done" /\ Adds(req[p]) /\ resp[p].status = 200
        /\ Cardinality(PendingIds(pre[p].stocks, UidOf(req[p].tg_id))) = max_stocks
        /\ Cardinality(PendingIds(stocks, UidOf(req[p].tg_id))) = 1

\* C27: when the requests of one user never overlap, every user has at most
\* MAX_STOCKS_PER_USER pending rows in every state, whatever the sequence of
\* Increment, Set-filled, registration and /redeem requests.
C27_SerialPendingWithinMax ==
    \A tg \in TgIds :
        Cardinality({i \in DOMAIN stocks :
                        stocks[i].user_id = UidOf(tg) /\ ~stocks[i].completed}) <= max_stocks

C27_Witness ==
    \E p, q \in Procs :
        /\ p # q /\ ~Idle(q)
        /\ pc[p] = "done" /\ Adds(req[p]) /\ resp[p].status = 200
        /\ stocks[Len(stocks)].title = FREE_HOOKAH_TITLE
        /\ Cardinality(CompletedIds(stocks, UidOf(req[p].tg_id))) = max_stocks

\* The rows of a user that carry the given title.
Titled(uid, title) == {i \in DOMAIN stocks : stocks[i].user_id = uid /\ stocks[i].title = title}

\* C28: a free reward is granted only after a full threshold of paid slots:
\* in every state every user has at least MAX_STOCKS_PER_USER paid rows for
\* each of its free-reward rows.
C28_PaidPerFreeReward ==
    \A u \in DOMAIN users :
        Cardinality(Titled(u, PAID_HOOKAH_TITLE))
            >= max_stocks * Cardinality(Titled(u, FREE_HOOKAH_TITLE))

\* The Increments for tg that have added their row and are not answered yet.
PastAdd(tg) ==
    Cardinality({p \in Procs :
        /\ Adds(req[p]) /\ req[p].tg_id = tg
        /\ pc[p] \in {"mirror", "summary_active", "summary_count"}})

\* C29: no Increment is lost or merged with another: under every
\* interleaving the number of slot rows of a user is the number of Increments
\* answered 200 for it, plus the ones that have added their row and are about
\* to be answered.
C29_OneRowPerIncrement ==
    \A tg \in TgIds :
        Cardinality(RowsOf(stocks, UidOf(tg))) = streak[tg].n + PastAdd(tg)

C29_Witness ==
    \E p, q \in Procs :
        /\ p # q /\ pc[p] = "done" /\ pc[q] = "done"
        /\ req[p] = req[q] /\ req[p].op = "post_stocks"
        /\ resp[p].status = 200 /\ resp[q].status = 200
        /\ pre[p].stocks = pre[q].stocks
        /\ streak[req[p].tg_id].n = 3

\* Worker p takes a step.
Stepped(p) == pc'[p] # pc[p]

\* A step of a request for tg keeps every users row of another tg_id and
\* every stocks row of another user, and adds stocks rows for tg's user only.
KeepsOthers(tg) ==
    LET u == UserByTgId(users', tg) IN
    /\ \A j \in DOMAIN users :
        users[j].tg_id # tg => j \in DOMAIN users' /\ users'[j] = users[j]
    /\ \A i \in DOMAIN stocks :
        stocks[i].user_id # u => i \in DOMAIN stocks' /\ stocks'[i] = stocks[i]
    /\ \A i \in DOMAIN stocks' \ DOMAIN stocks : stocks'[i].user_id = u

\* C30: no step of an Increment, a Set-filled, a /redeem or a read for one
\* user changes a slot row or a profile field of another user, under every
\* interleaving with the other user's own requests.
C30_OtherUsersUntouched ==
    [][\A p \in Procs :
        Stepped(p) /\ req'[p].op \in {"post_stocks", "get_stocks", "get_main", "redeem"}
            => KeepsOthers(req'[p].tg_id)]_vars

C30_Witness ==
    \E p, q \in Procs, tg \in TgIds :
        /\ FillDone(p, tg)
        /\ ~Idle(q) /\ req[q].tg_id # tg
        /\ \E i \in DOMAIN stocks : stocks[i].user_id # UidOf(tg) /\ ~stocks[i].completed

\* A step keeps every completed row in the table, completed and with its
\* user, and lowers no user's count of completed rows.
CompletedStay ==
    /\ \A i \in DOMAIN stocks :
        stocks[i].completed =>
            /\ i \in DOMAIN stocks'
            /\ stocks'[i].completed
            /\ stocks'[i].user_id = stocks[i].user_id
    /\ \A u \in DOMAIN users :
        Cardinality(CompletedIds(stocks', u)) >= Cardinality(CompletedIds(stocks, u))

\* C31: a completed slot row is never pending again and never deleted, and
\* each user's completed count never decreases, under every interleaving of
\* /api/stocks, /api/main, /api/register and /redeem requests.
C31_CompletionIrreversible == [][CompletedStay]_vars

C31_Witness ==
    \E i, j \in DOMAIN stocks :
        /\ i < j /\ stocks[i].user_id = stocks[j].user_id
        /\ stocks[i].completed /\ ~stocks[j].completed
        /\ users[stocks[i].user_id].first_name = "Test"
        /\ \E p \in Procs : FillDone(p, users[stocks[i].user_id].tg_id)

\* A step of a registration leaves the stocks table as it is and keeps every
\* users row under its id and tg_id.
RegisterKeepsLedger ==
    \A p \in Procs :
        Stepped(p) /\ req'[p].op \in Paths =>
            /\ stocks' = stocks
            /\ \A j \in DOMAIN users :
                j \in DOMAIN users' /\ users'[j].tg_id = users[j].tg_id

\* C32: no step of a POST /api/register request, answered 200 or not, changes
\* a slot row, and the user it registers keeps its users row, so the rows
\* accrued before the registration still belong to that user.
C32_RegisterLeavesLedger == [][RegisterKeepsLedger]_vars

C32_Witness ==
    \E p, q \in Procs :
        /\ p # q /\ pc[q] = "idle"
        /\ pc[p] = "done" /\ IsRegister(p) /\ resp[p].status = 200
        /\ LET u == UserByTgId(users, req[p].tg_id) IN
            /\ u # 0 /\ users[u].first_name = "Test"
            /\ CompletedIds(stocks, u) # {}
            /\ PendingIds(stocks, u) # {}

\* The request of p carried out an accrual action: an Increment or a
\* Set-filled of POST /api/stocks, or the Increment of /redeem.
AccrualDone(p) ==
    /\ resp[p].status = 200
    /\ \/ req[p].op = "post_stocks" /\ (req[p].incrementSlot \/ req[p].filledGiven)
       \/ req[p].op = "redeem"

\* C33: a finished request made a mirror send attempt exactly when it carried
\* out an accrual action, through POST /api/stocks or through /redeem; a
\* request that changed the stocks table made one, a rejected request none.
C33_MirrorAfterEachAccrual ==
    \A p \in Procs :
        pc[p] = "done" =>
            /\ loc[p].mirror \in MirrorOutcomes <=> AccrualDone(p)
            /\ stocks # pre[p].stocks => loc[p].mirror \in MirrorOutcomes

\* The same for POST /api/stocks alone.
C33_PostStocksMirrors ==
    \A p \in Procs :
        pc[p] = "done" /\ req[p].op = "post_stocks" =>
            /\ loc[p].mirror \in MirrorOutcomes <=> AccrualDone(p)
            /\ stocks # pre[p].stocks => loc[p].mirror \in MirrorOutcomes

====
